---- MODULE Spec2Model ----
(***************************************************************************)
(* A model of src/dashboard.py: the IMDb analytics dashboard script.       *)
(*                                                                         *)
(* The script is one straight-line pass.  It is modelled in three parts,   *)
(* each with its own specification over the same variables:                *)
(*   SpecNorm    column-name normalisation of one table (lines 35-63)      *)
(*   SpecImpute  numeric coercion and imputation of one table (68-86)      *)
(*   Spec, SpecJoin, SpecCols                                              *)
(*               one interaction over the imputed tables: sidebar, filter  *)
(*               steps, the sidebar export, the seven tabs with their      *)
(*               joins and the data-table export (lines 94-455), from      *)
(*               three families of tables                                  *)
(*                                                                         *)
(* Strings that the code inspects character by character (column names)    *)
(* are sequences of one-character strings.  Floating point values are      *)
(* fixed-point integers: a numeric cell v stands for v/4 in SpecImpute,    *)
(* and a metadata value v stands for v/4 in the interaction.               *)
(***************************************************************************)
EXTENDS Integers, Sequences, FiniteSets, TLC

VARIABLES
    npc,            \* position in the normalisation part
    rawColumns,     \* the header as loaded (kept to state the claims)
    columns,        \* df.columns of the table being normalised
    ipc,            \* position in the coercion / imputation part
    rawTable,       \* the table as loaded (kept to state the claims)
    table,          \* the table being coerced and imputed: column -> cells
    pc,             \* position in the interaction
    df_clean,       \* the imputed movie table: [cols, rows]
    df_genre,       \* the imputed genre-exploded table: [cols, rows]
    df_cast,        \* the imputed cast-exploded table: [cols, rows]
    genre_filter,   \* sidebar: selected genres
    cast_filter,    \* sidebar: selected cast members
    year_range,     \* sidebar: <<lo, hi>>
    meta_range,     \* sidebar: <<lo, hi>>
    df_filtered,    \* rows of the filtered movie table
    prev_filtered,  \* df_filtered as the previous filter step left it
    df_year_genre,  \* the joined genre table of the tab that ran last
    df_year_cast,   \* the joined cast table of the cast tab
    pivot_rows,     \* rows counted by the genre-by-year pivot
    count_rows,     \* rows counted by the actor-appearances-by-year counts
    corr,           \* outcome of the correlation tab
    filter_end,     \* the four tables as the filter step left them
    csv_bytes,      \* the sidebar export (line 141)
    g_counts,       \* overview tab: top genres with their counts
    c_counts,       \* overview tab: top actors with their counts
    scatter,        \* scatter tab: the charts drawn
    table_csv       \* the data-table export (line 452)

vars == <<npc, rawColumns, columns, ipc, rawTable, table, pc, df_clean,
          df_genre, df_cast, genre_filter, cast_filter, year_range,
          meta_range, df_filtered, prev_filtered, df_year_genre,
          df_year_cast, pivot_rows, count_rows, corr, filter_end, csv_bytes,
          g_counts, c_counts, scatter, table_csv>>

normVars == <<npc, rawColumns, columns>>
imputeVars == <<ipc, rawTable, table>>
passVars == <<pc, df_clean, df_genre, df_cast, genre_filter, cast_filter,
              year_range, meta_range, df_filtered, prev_filtered,
              df_year_genre, df_year_cast, pivot_rows, count_rows, corr,
              filter_end, csv_bytes, g_counts, c_counts, scatter, table_csv>>
exportVars == <<csv_bytes, g_counts, c_counts, scatter, table_csv>>

(***************************************************************************)
(* Generic helpers on sequences.                                           *)
(***************************************************************************)
Range(s) == {s[i] : i \in 1..Len(s)}

SeqsUpTo(S, n) == UNION {[1..k -> S] : k \in 0..n}

RECURSIVE SelectRows(_, _)
SelectRows(s, keep) ==
    \* the rows s[i] with i \in keep, in the order of s
    IF s = <<>> THEN <<>>
    ELSE LET n == Len(s)
             front == SelectRows(SubSeq(s, 1, n - 1), keep)
         IN IF n \in keep THEN Append(front, s[n]) ELSE front

(***************************************************************************)
(* PART 1: column normalisation (lines 35-63).                             *)
(***************************************************************************)
\* A column name is a sequence of one-character strings.
metadata == <<"m", "e", "t", "a", "d", "a", "t", "a">>
meta_data == <<"m", "e", "t", "a", "_", "d", "a", "t", "a">>
duration == <<"d", "u", "r", "a", "t", "i", "o", "n">>
duration_ == <<"d", "u", "r", "a", "t", "i", "o", "n", "_">>
title == <<"t", "i", "t", "l", "e">>

\* str.lower() on the letters the bounded headers use
Lower(c) ==
    CASE c = "M" -> "m" [] c = "E" -> "e" [] c = "T" -> "t" [] c = "A" -> "a"
      [] c = "D" -> "d" [] c = "U" -> "u" [] c = "R" -> "r" [] c = "I" -> "i"
      [] c = "O" -> "o" [] c = "N" -> "n" [] c = "L" -> "l"
      [] OTHER -> c

LowerStr(s) == [i \in 1..Len(s) |-> Lower(s[i])]

\* str.strip() removes every leading and trailing whitespace character;
\* "\r" is whitespace for strip() although no replace() below touches it
StripChars == {" ", "\t", "\n", "\r"}

RECURSIVE LStrip(_)
LStrip(s) ==
    IF s # <<>> /\ Head(s) \in StripChars THEN LStrip(Tail(s)) ELSE s

RECURSIVE RStrip(_)
RStrip(s) ==
    IF s # <<>> /\ s[Len(s)] \in StripChars
    THEN RStrip(SubSeq(s, 1, Len(s) - 1)) ELSE s

Strip(s) == RStrip(LStrip(s))

\* str.replace(old, new) for one-character old and new: every occurrence
Replace(s, old, new) == [i \in 1..Len(s) |-> IF s[i] = old THEN new ELSE s[i]]

\* A plausible slip: str.replace(old, new, 1), only the first occurrence
ReplaceFirstOnly(s, old, new) ==
    [i \in 1..Len(s) |->
        IF s[i] = old /\ \A j \in 1..(i - 1) : s[j] # old THEN new ELSE s[i]]

\* line 44 with the slip above
ReplaceSpaceFirstOnly(s) == ReplaceFirstOnly(s, " ", "_")

\* line 44: .replace(" ", "_")
ReplaceSpace(s) == Replace(s, " ", "_")

\* lines 39-47: the new name of one column
NormalizeName(c) ==
    IF c = metadata THEN c
    ELSE Replace(Replace(ReplaceSpace(Strip(LowerStr(c))), "\n", "_"), "\t", "_")

\* lines 35-49: normalize_columns
normalize_columns(cs) == [i \in 1..Len(cs) |-> NormalizeName(cs[i])]

\* DataFrame.rename(columns={old: new}): every column labelled old
Rename(cs, old, new) == [i \in 1..Len(cs) |-> IF cs[i] = old THEN new ELSE cs[i]]

\* lines 57-58, for one table
RenameMetaData(cs) ==
    IF meta_data \in Range(cs) /\ metadata \notin Range(cs)
    THEN Rename(cs, meta_data, metadata) ELSE cs

\* lines 62-63, for one table
RenameDuration(cs) ==
    IF duration_ \in Range(cs) /\ duration \notin Range(cs)
    THEN Rename(cs, duration_, duration) ELSE cs

\* the whole normalisation of one table, lines 51-63
Normalize(cs) == RenameDuration(RenameMetaData(normalize_columns(cs)))

(* Bounded headers. *)
MaxSep == 2     \* longest run of whitespace where the separator stands

Upper(c) ==
    CASE c = "m" -> "M" [] c = "e" -> "E" [] c = "t" -> "T" [] c = "a" -> "A"
      [] c = "d" -> "D" [] c = "u" -> "U" [] c = "r" -> "R" [] c = "i" -> "I"
      [] c = "o" -> "O" [] c = "n" -> "N" [] c = "l" -> "L"
      [] OTHER -> c

CaseForms == {"lower", "upper", "title"}

Cased(word, form) ==
    [i \in 1..Len(word) |->
        IF form = "upper" \/ (form = "title" /\ i = 1)
        THEN Upper(word[i]) ELSE word[i]]

SepChars == {" ", "\t", "\n"}
Separators ==
    {<<>>, <<"_">>} \cup (SeqsUpTo(SepChars, MaxSep) \ {<<>>})
Leads == {<<>>, <<" ">>}
Trails == {<<>>, <<"\t">>}

\* every spelling of the score column's header the model draws
ScoreSpellings ==
    {lead \o Cased(<<"m", "e", "t", "a">>, f) \o sep
          \o Cased(<<"d", "a", "t", "a">>, f) \o trail :
        lead \in Leads, f \in CaseForms, sep \in Separators, trail \in Trails}

DurationSpellings ==
    {Cased(duration, f) \o tail :
        f \in {"lower", "upper"},
        tail \in {<<>>, <<"_">>, <<" ">>, <<" ", "_">>}}

OtherNames == {title, <<" ", "T", "i", "t", "l", "e">>, <<"a", "\r", " ">>}

Names == ScoreSpellings \cup DurationSpellings \cup OtherNames

\* the second column of a two-column header
CompanionNames ==
    {metadata, meta_data, <<"M", "e", "t", "a", " ", "D", "a", "t", "a">>,
     duration, duration_, <<"D", "u", "r", "a", "t", "i", "o", "n", " ">>,
     title}

Headers ==
    {<<a>> : a \in Names}
    \cup {<<a, b>> : a \in Names, b \in CompanionNames}
    \cup {<<b, a>> : a \in Names, b \in CompanionNames}

NormIdle ==
    /\ npc = "off"
    /\ rawColumns = <<>>
    /\ columns = <<>>

InitNormVars ==
    /\ npc = "loaded"
    /\ rawColumns \in Headers
    /\ columns = rawColumns

\* lines 51-53: df = normalize_columns(df)
NormalizeColumns ==
    /\ npc = "loaded"
    /\ columns' = normalize_columns(columns)
    /\ npc' = "normalized"
    /\ UNCHANGED <<rawColumns, imputeVars, passVars>>

\* lines 56-58
RenameMetaDataStep ==
    /\ npc = "normalized"
    /\ columns' = RenameMetaData(columns)
    /\ npc' = "meta_renamed"
    /\ UNCHANGED <<rawColumns, imputeVars, passVars>>

\* lines 61-63
RenameDurationStep ==
    /\ npc = "meta_renamed"
    /\ columns' = RenameDuration(columns)
    /\ npc' = "done"
    /\ UNCHANGED <<rawColumns, imputeVars, passVars>>


(***************************************************************************)
(* PART 2: numeric coercion and imputation (lines 68-86).                  *)
(* A cell is [k |-> "num", v |-> n] (the number n/4), [k |-> "nan"] (a     *)
(* missing value) or, before coercion, [k |-> "text"] (unparseable text).  *)
(***************************************************************************)
Num(n) == [k |-> "num", v |-> n]
NaN == [k |-> "nan", v |-> 0]
Text == [k |-> "text", v |-> 0]

NumericCols == {"metadata", "duration", "year"}

\* pd.to_numeric(errors="coerce") on one cell, line 71
ToNumeric(cell) == IF cell.k = "num" THEN cell ELSE NaN

\* lines 68-72: coerce_numeric(df, ["metadata", "duration", "year"])
coerce_numeric(t) ==
    [c \in DOMAIN t |-> [i \in 1..Len(t[c]) |-> ToNumeric(t[c][i])]]

\* the numbers of a column, missing values skipped
Present(col) == SelectRows(col, {i \in 1..Len(col) : col[i].k = "num"})

\* the k-th smallest number of a non-empty sequence of numeric cells
KthSmallest(s, k) ==
    CHOOSE x \in {s[i].v : i \in 1..Len(s)} :
        /\ Cardinality({i \in 1..Len(s) : s[i].v < x}) < k
        /\ k <= Cardinality({i \in 1..Len(s) : s[i].v <= x})

\* Series.median(): skips missing values; NaN when nothing is left
Median(col) ==
    LET s == Present(col)
        n == Len(s)
    IN IF n = 0 THEN NaN
       ELSE IF n % 2 = 1 THEN Num(KthSmallest(s, (n + 1) \div 2))
       ELSE Num((KthSmallest(s, n \div 2) + KthSmallest(s, n \div 2 + 1)) \div 2)

\* Series.fillna(value): filling with NaN leaves the missing values
FillNa(col, value) ==
    [i \in 1..Len(col) |-> IF col[i].k = "nan" THEN value ELSE col[i]]

\* int(x) / astype(int) on a number: truncation toward zero
TruncTowardZero(n) == IF n >= 0 THEN (n \div 4) * 4 ELSE -(((-n) \div 4) * 4)

\* Series.astype(int) raises on a missing value
AsTypeIntRaises(col) == \E i \in 1..Len(col) : col[i].k = "nan"

AsTypeInt(col) == [i \in 1..Len(col) |-> Num(TruncTowardZero(col[i].v))]

\* lines 76-77
ImputeMetadata(t) ==
    IF "metadata" \in DOMAIN t
    THEN [t EXCEPT !["metadata"] = FillNa(t["metadata"], Median(t["metadata"]))]
    ELSE t

\* lines 78-81 for one of duration, year: <<table, raised>>
ImputeIntColumn(t, c) ==
    IF c \notin DOMAIN t THEN <<t, FALSE>>
    ELSE LET filled == FillNa(t[c], Median(t[c]))
         IN IF AsTypeIntRaises(filled) THEN <<t, TRUE>>
            ELSE <<[t EXCEPT ![c] = AsTypeInt(filled)], FALSE>>

\* lines 74-82: impute_and_cast, <<table, raised>>; an exception in the
\* duration step leaves the year step undone
impute_and_cast(t) ==
    LET afterMeta == ImputeMetadata(t)
        afterDur == ImputeIntColumn(afterMeta, "duration")
    IN IF afterDur[2] THEN afterDur
       ELSE ImputeIntColumn(afterDur[1], "year")

(* Bounded tables. *)
MaxCells == 2   \* most rows of the table being imputed

RawNums == {-6, 4, 10}     \* -1.5, 1.0, 2.5
RawCells == {NaN, Text} \cup {Num(n) : n \in RawNums}

\* every table of at most maxCells rows over some of the three columns
RawTables(maxCells) ==
    UNION {[cs -> [1..n -> RawCells]] : cs \in SUBSET NumericCols, n \in 0..maxCells}

ImputeIdle ==
    /\ ipc = "off"
    /\ rawTable = <<>>
    /\ table = <<>>

InitImputeVars ==
    /\ ipc = "loaded"
    /\ rawTable \in RawTables(MaxCells)
    /\ table = rawTable

\* line 85
CoerceNumeric ==
    /\ ipc = "loaded"
    /\ table' = coerce_numeric(table)
    /\ ipc' = "coerced"
    /\ UNCHANGED <<rawTable, normVars, passVars>>

\* line 86
ImputeAndCast ==
    /\ ipc = "coerced"
    /\ LET r == impute_and_cast(table)
       IN /\ table' = r[1]
          /\ ipc' = IF r[2] THEN "error" ELSE "done"
    /\ UNCHANGED <<rawTable, normVars, passVars>>

(***************************************************************************)
(* PART 3: one interaction over the imputed tables (lines 94-440).         *)
(* A table is [cols |-> set of column names, rows |-> sequence of rows].   *)
(* A row has a field for every column the model knows; the field of a      *)
(* column the table lacks holds a filler that no operator reads.  year and *)
(* duration are integers (line 79, 81), metadata v is the float v/4.       *)
(***************************************************************************)
HasCol(df, c) == c \in df.cols

\* line 118: "title" or None
TitleCol(clean) == IF HasCol(clean, "title") THEN "title" ELSE "None"

\* int(x) on the float n/4 (lines 103-104, 111-112)
IntOf(n) == TruncTowardZero(n) \div 4

\* a plausible slip: Series.between(lo, hi, inclusive="left")
BetweenLeftOnly(v, lo, hi) == lo <= v /\ v < hi

\* Series.between(lo, hi): inclusive on both sides (lines 123, 125)
Between(v, lo, hi) == lo <= v /\ v <= hi

MinOf(S) == CHOOSE x \in S : \A y \in S : x <= y
MaxOf(S) == CHOOSE x \in S : \A y \in S : y <= x

\* line 94 / line 98: the distinct non-missing values of a column
Available(tbl, col) ==
    IF HasCol(tbl, col) THEN {tbl.rows[i][col] : i \in 1..Len(tbl.rows)} ELSE {}

\* the fallbacks of lines 106 and 114
YearFallbackMin == 1900
YearFallbackMax == 2025
MetaFallbackMin == 0
MetaFallbackMax == 100

\* lines 102-106: <<year_min, year_max>>; int(nan) raises on an empty table
YearBoundsRaise(clean) == HasCol(clean, "year") /\ clean.rows = <<>>
YearBounds(clean) ==
    IF HasCol(clean, "year")
    THEN LET ys == {clean.rows[i].year : i \in 1..Len(clean.rows)}
         IN <<MinOf(ys), MaxOf(ys)>>
    ELSE <<YearFallbackMin, YearFallbackMax>>

\* lines 110-114: <<meta_min, meta_max>>; np.nanmin raises on an empty table
MetaBoundsRaise(clean) == HasCol(clean, "metadata") /\ clean.rows = <<>>
MetaBounds(clean) ==
    IF HasCol(clean, "metadata")
    THEN LET ms == {clean.rows[i].metadata : i \in 1..Len(clean.rows)}
         IN <<IntOf(MinOf(ms)), IntOf(MaxOf(ms))>>
    ELSE <<MetaFallbackMin, MetaFallbackMax>>

MaxSliderSpan == 2  \* a slider wider than this offers only its two ends

\* the values st.slider lets the analyst pick between lo and hi
SliderValues(lo, hi) == IF hi - lo <= MaxSliderSpan THEN lo..hi ELSE {lo, hi}

SliderRanges(b) ==
    {<<lo, hi>> : lo \in SliderValues(b[1], b[2]), hi \in SliderValues(b[1], b[2])}
        \ {r \in SliderValues(b[1], b[2]) \X SliderValues(b[1], b[2]) : r[1] > r[2]}

\* lines 94-115: every filter configuration the sidebar can return
Configs(clean, genre, cast) ==
    [genres : SUBSET Available(genre, "genre"),
     cast : SUBSET Available(cast, "cast"),
     yr : SliderRanges(YearBounds(clean)),
     mr : SliderRanges(MetaBounds(clean))]

SidebarRaises(clean) == YearBoundsRaise(clean) \/ MetaBoundsRaise(clean)

\* lines 122-123
YearStep(clean, rows, yr) ==
    IF HasCol(clean, "year")
    THEN SelectRows(rows, {i \in 1..Len(rows) : Between(rows[i].year, yr[1], yr[2])})
    ELSE rows

\* lines 124-125: the slider's integers against the float column
MetaStep(clean, rows, mr) ==
    IF HasCol(clean, "metadata")
    THEN SelectRows(rows,
            {i \in 1..Len(rows) : Between(rows[i].metadata, 4 * mr[1], 4 * mr[2])})
    ELSE rows

\* a plausible slip: the titles of the rows whose genre is NOT selected
TitlesOutsideGenre(genre, sel) ==
    {genre.rows[i].title : i \in {j \in 1..Len(genre.rows) : genre.rows[j].genre \notin sel}}

\* line 129: titles_with_genre
TitlesWithGenre(genre, sel) ==
    {genre.rows[i].title : i \in {j \in 1..Len(genre.rows) : genre.rows[j].genre \in sel}}

\* line 134: titles_with_cast
TitlesWithCast(cast, sel) ==
    {cast.rows[i].title : i \in {j \in 1..Len(cast.rows) : cast.rows[j].cast \in sel}}

\* line 128: the guard of the genre step
GenreStepApplies(clean, genre, sel) ==
    sel # {} /\ TitleCol(clean) # "None" /\ HasCol(genre, "genre")

\* line 129: df_genre[...][title_col] is a KeyError when df_genre has no title
GenreStepRaises(clean, genre, sel) ==
    GenreStepApplies(clean, genre, sel) /\ ~HasCol(genre, "title")

\* lines 128-130
GenreStep(clean, genre, rows, sel) ==
    IF GenreStepApplies(clean, genre, sel)
    THEN SelectRows(rows,
            {i \in 1..Len(rows) : rows[i].title \in TitlesWithGenre(genre, sel)})
    ELSE rows

\* line 133: the guard of the cast step
CastStepApplies(clean, cast, sel) ==
    sel # {} /\ TitleCol(clean) # "None" /\ HasCol(cast, "cast")

\* line 134: df_cast[...][title_col] is a KeyError when df_cast has no title
CastStepRaises(clean, cast, sel) ==
    CastStepApplies(clean, cast, sel) /\ ~HasCol(cast, "title")

\* lines 133-135
CastStep(clean, cast, rows, sel) ==
    IF CastStepApplies(clean, cast, sel)
    THEN SelectRows(rows,
            {i \in 1..Len(rows) : rows[i].title \in TitlesWithCast(cast, sel)})
    ELSE rows

\* lines 121-135 as one function of the tables and a configuration:
\* <<rows, raised>>
FilterPass(clean, genre, cast, cfg) ==
    LET afterMeta == MetaStep(clean, YearStep(clean, clean.rows, cfg.yr), cfg.mr)
    IN IF GenreStepRaises(clean, genre, cfg.genres) THEN <<afterMeta, TRUE>>
       ELSE LET afterGenre == GenreStep(clean, genre, afterMeta, cfg.genres)
            IN IF CastStepRaises(clean, cast, cfg.cast) THEN <<afterGenre, TRUE>>
               ELSE <<CastStep(clean, cast, afterGenre, cfg.cast), FALSE>>

(* The title-to-year joins.  A year cell of a joined table is <<y>> or,    *)
(* when missing, <<>>.  A joined row is [title, label, year_x, year_y,     *)
(* year]: label is the genre or the cast member; the table's cols say      *)
(* which of the three year fields are columns.                             *)
YearOf(y) == <<y>>
NoYear == <<>>

\* the rows a left join on title yields for one row of the exploded table:
\* one per matching movie row, in the movie table's order, or one with a
\* missing movie year when no movie row matches (how="left")
JoinOne(row, label, leftHasYear, clean) ==
    LET hits == {i \in 1..Len(clean.rows) : clean.rows[i].title = row.title}
        own == IF leftHasYear THEN YearOf(row.year) ELSE NoYear
        mk(movieYear) ==
            [title |-> row.title, label |-> label,
             year_x |-> own,
             year_y |-> IF leftHasYear THEN movieYear ELSE NoYear,
             year |-> IF leftHasYear THEN NoYear ELSE movieYear]
        matched == SelectRows(clean.rows, hits)
    IN IF hits = {} THEN <<mk(NoYear)>>
       ELSE [i \in 1..Len(matched) |-> mk(YearOf(matched[i].year))]

RECURSIVE JoinRows(_, _, _, _)
JoinRows(rows, labelCol, leftHasYear, clean) ==
    IF rows = <<>> THEN <<>>
    ELSE JoinOne(Head(rows), Head(rows)[labelCol], leftHasYear, clean)
            \o JoinRows(Tail(rows), labelCol, leftHasYear, clean)

\* left.merge(df_clean[[title_col, "year"]], on=title_col, how="left"):
\* a year column on both sides becomes year_x (left) and year_y (right)
MergeYear(left, labelCol, clean) ==
    [cols |-> IF HasCol(left, "year")
              THEN (left.cols \ {"year"}) \cup {"year_x", "year_y"}
              ELSE left.cols \cup {"year"},
     rows |-> JoinRows(left.rows, labelCol, HasCol(left, "year"), clean)]

\* a plausible slip: year_x.fillna(year_y), the exploded table's own year first
CoalescePreferLeft(r) == IF r.year_x # NoYear THEN r.year_x ELSE r.year_y

\* lines 270, 324, 378: year_y.fillna(year_x)
Coalesce(r) == IF r.year_y # NoYear THEN r.year_y ELSE r.year_x

\* lines 268-275, 323-329, 377-383: one column named year
ResolveYear(j) ==
    IF "year_x" \in j.cols /\ "year_y" \in j.cols
    THEN [cols |-> (j.cols \ {"year_x", "year_y"}) \cup {"year"},
          rows |-> [i \in 1..Len(j.rows) |->
                     [j.rows[i] EXCEPT !.year = Coalesce(j.rows[i]),
                                       !.year_x = NoYear, !.year_y = NoYear]]]
    ELSE IF "year_x" \in j.cols
    THEN [cols |-> (j.cols \ {"year_x"}) \cup {"year"},
          rows |-> [i \in 1..Len(j.rows) |->
                     [j.rows[i] EXCEPT !.year = j.rows[i].year_x, !.year_x = NoYear]]]
    ELSE IF "year_y" \in j.cols
    THEN [cols |-> (j.cols \ {"year_y"}) \cup {"year"},
          rows |-> [i \in 1..Len(j.rows) |->
                     [j.rows[i] EXCEPT !.year = j.rows[i].year_y, !.year_y = NoYear]]]
    ELSE j

\* dropna(subset=["year"]), lines 278, 332, 386
DropNaYear(rows) == SelectRows(rows, {i \in 1..Len(rows) : rows[i].year # NoYear})

\* df[df[title_col].isin(df_filtered[title_col])], lines 228, 295
WithFilteredTitles(rows, filtered) ==
    SelectRows(rows, {i \in 1..Len(rows) : rows[i].title \in
                        {filtered[k].title : k \in 1..Len(filtered)}})

TopActorsN == 15

\* value_counts().head(n).index: the n most frequent values, the earlier
\* first among equally frequent ones
TopLabels(rows, col, n) ==
    LET vals == {rows[i][col] : i \in 1..Len(rows)}
        cnt(v) == Cardinality({i \in 1..Len(rows) : rows[i][col] = v})
        first(v) == MinOf({i \in 1..Len(rows) : rows[i][col] = v})
        rank(v) == Cardinality({w \in vals :
                        cnt(w) > cnt(v) \/ (cnt(w) = cnt(v) /\ first(w) < first(v))})
    IN {v \in vals : rank(v) < n}

\* lines 295, 311-312: dfc_top
CastTop(cast, filtered) ==
    LET dfc == WithFilteredTitles(cast.rows, filtered)
        top == TopLabels(dfc, "cast", TopActorsN)
    IN [cols |-> cast.cols,
        rows |-> SelectRows(dfc, {i \in 1..Len(dfc) : dfc[i].cast \in top})]

\* line 427
NumCols(clean) == {"metadata", "duration", "year"} \cap clean.cols

NoJoin == [cols |-> {}, rows |-> <<>>]

NoTables == [filtered |-> <<>>, clean |-> NoJoin, genre |-> NoJoin, cast |-> NoJoin]

\* value_counts().head(n): the n most frequent values with their counts,
\* the most frequent first, the earlier first among equally frequent ones
ValueCounts(rows, col, n) ==
    LET vals == {rows[i][col] : i \in 1..Len(rows)}
        cnt(v) == Cardinality({i \in 1..Len(rows) : rows[i][col] = v})
        first(v) == MinOf({i \in 1..Len(rows) : rows[i][col] = v})
        rank(v) == Cardinality({w \in vals :
                        cnt(w) > cnt(v) \/ (cnt(w) = cnt(v) /\ first(w) < first(v))})
        top == {v \in vals : rank(v) < n}
    IN [k \in 1..Cardinality(top) |->
            LET v == CHOOSE w \in top : rank(w) = k - 1 IN <<v, cnt(v)>>]

\* lines 404, 410, 416: the column pairs of the three scatter charts
ScatterPairs == {{"metadata", "duration"}, {"metadata", "year"}, {"duration", "year"}}

(* DataFrame.to_csv(index=False): a header line with the column names, then
   one line for each row in row order, the cells of the frame's columns in
   column order, separated by commas, and no index column.  The text is a
   sequence of lines.  Integer cells are written in decimal, float cells
   with their fraction (a metadata value v stands for v/4). *)
ColumnOrder == <<"title", "year", "metadata", "duration">>

\* df_filtered.columns: the movie table's columns, in the table's order
Columns(clean) == SelectSeq(ColumnOrder, LAMBDA c : c \in clean.cols)

FormatInt(n) == IF n < 0 THEN "-" \o ToString(-n) ELSE ToString(n)

FormatFloat(v) ==
    LET a == IF v < 0 THEN -v ELSE v
        frac == CASE a % 4 = 0 -> "0" [] a % 4 = 1 -> "25"
                  [] a % 4 = 2 -> "5" [] OTHER -> "75"
    IN (IF v < 0 THEN "-" ELSE "") \o ToString(a \div 4) \o "." \o frac

FormatCell(col, v) ==
    CASE col = "title" -> v
      [] col = "metadata" -> FormatFloat(v)
      [] OTHER -> FormatInt(v)

RECURSIVE JoinComma(_)
JoinComma(fields) ==
    IF fields = <<>> THEN ""
    ELSE IF Len(fields) = 1 THEN fields[1]
    ELSE fields[1] \o "," \o JoinComma(Tail(fields))

CsvLine(cols, row) == JoinComma([k \in 1..Len(cols) |-> FormatCell(cols[k], row[cols[k]])])

to_csv(cols, rows) ==
    <<JoinComma(cols)>> \o [i \in 1..Len(rows) |-> CsvLine(cols, rows[i])]

\* line 141
SidebarExportCsv(clean, filtered) == to_csv(Columns(clean), filtered)

\* line 452, were it to export the unfiltered movie table
DataTableExportUnfiltered(clean, filtered) == to_csv(Columns(clean), clean.rows)

\* line 452
DataTableExport(clean, filtered) == to_csv(Columns(clean), filtered)

\* lines 94-118: the sidebar returns one configuration
Sidebar ==
    /\ pc = "sidebar"
    /\ IF SidebarRaises(df_clean)
       THEN /\ pc' = "raised_sidebar"
            /\ UNCHANGED <<genre_filter, cast_filter, year_range, meta_range>>
       ELSE /\ \E cfg \in Configs(df_clean, df_genre, df_cast) :
                 /\ genre_filter' = cfg.genres
                 /\ cast_filter' = cfg.cast
                 /\ year_range' = cfg.yr
                 /\ meta_range' = cfg.mr
            /\ pc' = "year"
    /\ UNCHANGED <<df_clean, df_genre, df_cast, df_filtered, prev_filtered,
                   df_year_genre, df_year_cast, pivot_rows, count_rows, corr,
                   filter_end, exportVars, normVars, imputeVars>>

\* lines 121-123
FilterYear ==
    /\ pc = "year"
    /\ prev_filtered' = df_clean.rows
    /\ df_filtered' = YearStep(df_clean, df_clean.rows, year_range)
    /\ pc' = "meta"
    /\ UNCHANGED <<df_clean, df_genre, df_cast, genre_filter, cast_filter,
                   year_range, meta_range, df_year_genre, df_year_cast,
                   pivot_rows, count_rows, corr,
                   filter_end, exportVars, normVars, imputeVars>>

\* lines 124-125
FilterMeta ==
    /\ pc = "meta"
    /\ prev_filtered' = df_filtered
    /\ df_filtered' = MetaStep(df_clean, df_filtered, meta_range)
    /\ pc' = "genre"
    /\ UNCHANGED <<df_clean, df_genre, df_cast, genre_filter, cast_filter,
                   year_range, meta_range, df_year_genre, df_year_cast,
                   pivot_rows, count_rows, corr,
                   filter_end, exportVars, normVars, imputeVars>>

\* lines 128-130
FilterGenre ==
    /\ pc = "genre"
    /\ prev_filtered' = df_filtered
    /\ IF GenreStepRaises(df_clean, df_genre, genre_filter)
       THEN pc' = "raised_genre" /\ UNCHANGED df_filtered
       ELSE /\ df_filtered' = GenreStep(df_clean, df_genre, df_filtered, genre_filter)
            /\ pc' = "cast"
    /\ UNCHANGED <<df_clean, df_genre, df_cast, genre_filter, cast_filter,
                   year_range, meta_range, df_year_genre, df_year_cast,
                   pivot_rows, count_rows, corr,
                   filter_end, exportVars, normVars, imputeVars>>

\* lines 133-135
FilterCast ==
    /\ pc = "cast"
    /\ prev_filtered' = df_filtered
    /\ IF CastStepRaises(df_clean, df_cast, cast_filter)
       THEN pc' = "raised_cast" /\ UNCHANGED <<df_filtered, filter_end>>
       ELSE /\ df_filtered' = CastStep(df_clean, df_cast, df_filtered, cast_filter)
            /\ filter_end' = [filtered |-> df_filtered', clean |-> df_clean,
                               genre |-> df_genre, cast |-> df_cast]
            /\ pc' = "export"
    /\ UNCHANGED <<df_clean, df_genre, df_cast, genre_filter, cast_filter,
                   year_range, meta_range, df_year_genre, df_year_cast,
                   pivot_rows, count_rows, corr,
                   exportVars, normVars, imputeVars>>

\* lines 137-142: the sidebar's count and CSV export of the filtered table
SidebarExport ==
    /\ pc = "export"
    /\ csv_bytes' = SidebarExportCsv(df_clean, df_filtered)
    /\ pc' = "overview_tab"
    /\ UNCHANGED <<df_clean, df_genre, df_cast, genre_filter, cast_filter,
                   year_range, meta_range, df_filtered, prev_filtered,
                   df_year_genre, df_year_cast, pivot_rows, count_rows, corr,
                   filter_end, g_counts, c_counts, scatter, table_csv,
                   normVars, imputeVars>>

\* lines 166-219: the overview tab's top genres and top actors
OverviewTab ==
    /\ pc = "overview_tab"
    /\ g_counts' = IF /\ HasCol(df_genre, "genre")
                      /\ TitleCol(df_clean) # "None"
                      /\ HasCol(df_genre, TitleCol(df_clean))
                   THEN ValueCounts(WithFilteredTitles(df_genre.rows, df_filtered),
                                    "genre", TopActorsN)
                   ELSE g_counts
    /\ c_counts' = IF /\ HasCol(df_cast, "cast")
                      /\ TitleCol(df_clean) # "None"
                      /\ HasCol(df_cast, TitleCol(df_clean))
                   THEN ValueCounts(WithFilteredTitles(df_cast.rows, df_filtered),
                                    "cast", TopActorsN)
                   ELSE c_counts
    /\ pc' = "genre_tab"
    /\ UNCHANGED <<df_clean, df_genre, df_cast, genre_filter, cast_filter,
                   year_range, meta_range, df_filtered, prev_filtered,
                   df_year_genre, df_year_cast, pivot_rows, count_rows, corr,
                   filter_end, csv_bytes, scatter, table_csv,
                   normVars, imputeVars>>

\* lines 225-284: the genre tab's join of the whole df_genre (line 261
\* replaces the join of dfg_top of line 256) and its pivot
GenreTab ==
    /\ pc = "genre_tab"
    /\ IF /\ HasCol(df_genre, "genre")
          /\ TitleCol(df_clean) # "None"
          /\ HasCol(df_genre, TitleCol(df_clean))
          /\ HasCol(df_clean, "year")
       THEN LET j == ResolveYear(MergeYear(df_genre, "genre", df_clean))
            IN /\ df_year_genre' = j
               /\ pivot_rows' = DropNaYear(j.rows)
       ELSE UNCHANGED <<df_year_genre, pivot_rows>>
    /\ pc' = "cast_tab"
    /\ UNCHANGED <<df_clean, df_genre, df_cast, genre_filter, cast_filter,
                   year_range, meta_range, df_filtered, prev_filtered,
                   df_year_cast, count_rows, corr,
                   filter_end, exportVars, normVars, imputeVars>>

\* lines 292-338: the cast tab's join of dfc_top and its counts
CastTab ==
    /\ pc = "cast_tab"
    /\ IF /\ HasCol(df_cast, "cast")
          /\ TitleCol(df_clean) # "None"
          /\ HasCol(df_cast, TitleCol(df_clean))
          /\ HasCol(df_clean, "year")
       THEN LET j == ResolveYear(MergeYear(CastTop(df_cast, df_filtered), "cast", df_clean))
            IN /\ df_year_cast' = j
               /\ count_rows' = IF "year" \in j.cols THEN DropNaYear(j.rows)
                                ELSE count_rows
       ELSE UNCHANGED <<df_year_cast, count_rows>>
    /\ pc' = "yearly_tab"
    /\ UNCHANGED <<df_clean, df_genre, df_cast, genre_filter, cast_filter,
                   year_range, meta_range, df_filtered, prev_filtered,
                   df_year_genre, pivot_rows, corr,
                   filter_end, exportVars, normVars, imputeVars>>

\* lines 348-397: the yearly tab's join of the whole df_genre and its pivot
YearlyTab ==
    /\ pc = "yearly_tab"
    /\ IF /\ HasCol(df_clean, "year")
          /\ HasCol(df_genre, "genre")
          /\ TitleCol(df_clean) # "None"
          /\ HasCol(df_genre, TitleCol(df_clean))
       THEN LET j == ResolveYear(MergeYear(df_genre, "genre", df_clean))
            IN /\ df_year_genre' = j
               /\ pivot_rows' = IF "year" \in j.cols THEN DropNaYear(j.rows)
                                ELSE pivot_rows
       ELSE UNCHANGED <<df_year_genre, pivot_rows>>
    /\ pc' = "scatter_tab"
    /\ UNCHANGED <<df_clean, df_genre, df_cast, genre_filter, cast_filter,
                   year_range, meta_range, df_filtered, prev_filtered,
                   df_year_cast, count_rows, corr,
                   filter_end, exportVars, normVars, imputeVars>>

\* lines 402-420: the scatter tab draws a chart for each pair of numeric
\* columns that the movie table has
ScatterTab ==
    /\ pc = "scatter_tab"
    /\ scatter' = {p \in ScatterPairs : p \subseteq df_clean.cols}
    /\ pc' = "corr_tab"
    /\ UNCHANGED <<df_clean, df_genre, df_cast, genre_filter, cast_filter,
                   year_range, meta_range, df_filtered, prev_filtered,
                   df_year_genre, df_year_cast, pivot_rows, count_rows, corr,
                   filter_end, csv_bytes, g_counts, c_counts, table_csv,
                   normVars, imputeVars>>

\* lines 425-440
CorrelationTab ==
    /\ pc = "corr_tab"
    /\ corr' = IF Cardinality(NumCols(df_clean)) >= 2 THEN "matrix" ELSE "insufficient"
    /\ pc' = "table_tab"
    /\ UNCHANGED <<df_clean, df_genre, df_cast, genre_filter, cast_filter,
                   year_range, meta_range, df_filtered, prev_filtered,
                   df_year_genre, df_year_cast, pivot_rows, count_rows,
                   filter_end, exportVars, normVars, imputeVars>>

\* lines 445-455: the data table tab shows the filtered table and exports it
DataTableTab ==
    /\ pc = "table_tab"
    /\ table_csv' = DataTableExport(df_clean, df_filtered)
    /\ pc' = "done"
    /\ UNCHANGED <<df_clean, df_genre, df_cast, genre_filter, cast_filter,
                   year_range, meta_range, df_filtered, prev_filtered,
                   df_year_genre, df_year_cast, pivot_rows, count_rows, corr,
                   filter_end, csv_bytes, g_counts, c_counts, scatter,
                   normVars, imputeVars>>

(* Bounded tables of the interaction. *)
MaxRows == 3    \* most rows of the three tables together

MovieRow(t, y, m) == [title |-> t, year |-> y, metadata |-> m, duration |-> 90]
GenreRow(t, g, y) == [title |-> t, genre |-> g, year |-> y]
CastRow(t, c, y) == [title |-> t, cast |-> c, year |-> y]

\* every triple of row sequences over the given rows, n rows in all
RowTriples(MK, GK, CK, n) ==
    UNION {[1..l[1] -> MK] \X [1..l[2] -> GK] \X [1..l[3] -> CK] :
            l \in {x \in (0..n) \X (0..n) \X (0..n) : x[1] + x[2] + x[3] <= n}}

TableTriples(mcols, MK, gcols, GK, ccols, CK, n) ==
    {<<[cols |-> mcols, rows |-> t[1]], [cols |-> gcols, rows |-> t[2]],
       [cols |-> ccols, rows |-> t[3]]>> : t \in RowTriples(MK, GK, CK, n)}

\* the filter family: every column present, varied movie data; metadata
\* -1.0 and 0.5
FilterTables(n) ==
    TableTriples(
        {"title", "year", "metadata", "duration"},
        {MovieRow(t, y, m) : t \in {"A", "B"}, y \in {2000, 2001}, m \in {-4, 2}},
        {"title", "genre"},
        {GenreRow(t, g, 0) : t \in {"A", "B"}, g \in {"Drama", "Comedy"}},
        {"title", "cast"},
        {CastRow("A", "X", 0), CastRow("B", "Y", 0)},
        n)

\* the join family: exploded tables with or without a year column of their
\* own, and with a title (C) that no movie has
JoinTables(n) ==
    UNION {TableTriples(
            {"title", "year", "metadata"},
            {MovieRow(t, y, 0) : t \in {"A", "B"}, y \in {2000, 2001}},
            {"title", "genre"} \cup gy,
            {GenreRow(t, "Drama", IF gy = {} THEN 0 ELSE y) :
                t \in {"A", "C"}, y \in {1999, 2000}},
            {"title", "cast"} \cup cy,
            {CastRow(t, "X", IF cy = {} THEN 0 ELSE 1999) : t \in {"A", "C"}},
            n) :
        gy \in {{}, {"year"}}, cy \in {{}, {"year"}}}

\* the column family: every combination of present and absent columns
ColsTables(n) ==
    UNION {TableTriples(
            mcols, {MovieRow("A", 2000, 0)},
            gcols, {GenreRow(t, "Drama", 0) : t \in {"A", "B"}},
            ccols, {CastRow("A", "X", 0)},
            n) :
        mcols \in SUBSET {"title", "year", "metadata", "duration"},
        gcols \in SUBSET {"title", "genre"},
        ccols \in SUBSET {"title", "cast"}}

PassIdle ==
    /\ pc = "off"
    /\ df_clean = NoJoin /\ df_genre = NoJoin /\ df_cast = NoJoin
    /\ genre_filter = {} /\ cast_filter = {}
    /\ year_range = <<0, 0>> /\ meta_range = <<0, 0>>
    /\ df_filtered = <<>> /\ prev_filtered = <<>>
    /\ df_year_genre = NoJoin /\ df_year_cast = NoJoin
    /\ pivot_rows = <<>> /\ count_rows = <<>>
    /\ corr = "none"
    /\ filter_end = NoTables
    /\ csv_bytes = <<>> /\ table_csv = <<>>
    /\ g_counts = <<>> /\ c_counts = <<>>
    /\ scatter = {}

PassStart(tables) ==
    /\ pc = "sidebar"
    /\ \E t \in tables : df_clean = t[1] /\ df_genre = t[2] /\ df_cast = t[3]
    /\ genre_filter = {} /\ cast_filter = {}
    /\ year_range = <<0, 0>> /\ meta_range = <<0, 0>>
    /\ df_filtered = <<>> /\ prev_filtered = <<>>
    /\ df_year_genre = NoJoin /\ df_year_cast = NoJoin
    /\ pivot_rows = <<>> /\ count_rows = <<>>
    /\ corr = "none"
    /\ filter_end = NoTables
    /\ csv_bytes = <<>> /\ table_csv = <<>>
    /\ g_counts = <<>> /\ c_counts = <<>>
    /\ scatter = {}

(***************************************************************************)
(* The specifications.                                                     *)
(***************************************************************************)
InitNorm == InitNormVars /\ ImputeIdle /\ PassIdle
NextNorm == NormalizeColumns \/ RenameMetaDataStep \/ RenameDurationStep
SpecNorm == InitNorm /\ [][NextNorm]_vars

InitImpute == NormIdle /\ InitImputeVars /\ PassIdle
NextImpute == CoerceNumeric \/ ImputeAndCast
SpecImpute == InitImpute /\ [][NextImpute]_vars

Next ==
    \/ Sidebar
    \/ FilterYear
    \/ FilterMeta
    \/ FilterGenre
    \/ FilterCast
    \/ SidebarExport
    \/ OverviewTab
    \/ GenreTab
    \/ CastTab
    \/ YearlyTab
    \/ ScatterTab
    \/ CorrelationTab
    \/ DataTableTab

Init == NormIdle /\ ImputeIdle /\ PassStart(FilterTables(MaxRows))
Spec == Init /\ [][Next]_vars

InitJoin == NormIdle /\ ImputeIdle /\ PassStart(JoinTables(MaxRows))
SpecJoin == InitJoin /\ [][Next]_vars

InitCols == NormIdle /\ ImputeIdle /\ PassStart(ColsTables(MaxRows))
SpecCols == InitCols /\ [][Next]_vars

(***************************************************************************)
(* The claims.                                                             *)
(***************************************************************************)
AfterFilter ==
    pc \in {"export", "overview_tab", "genre_tab", "cast_tab", "yearly_tab",
            "scatter_tab", "corr_tab", "table_tab", "done"}

MovieTitles == {df_clean.rows[i].title : i \in 1..Len(df_clean.rows)}

\* C1: when the movie table carries title, year and metadata and the
\* exploded tables carry title plus genre / cast, the filtered table is
\* exactly the movie rows, in base order and none twice, whose year is in
\* year_range and whose metadata is in metadata_range (both inclusive) and
\* whose title has a selected genre (or no genre is selected) and a selected
\* cast member (or none is selected).
C1_FilteredIsConjunction ==
    (/\ AfterFilter
     /\ {"title", "year", "metadata"} \subseteq df_clean.cols
     /\ {"title", "genre"} \subseteq df_genre.cols
     /\ {"title", "cast"} \subseteq df_cast.cols)
    => df_filtered = SelectRows(df_clean.rows,
          {i \in 1..Len(df_clean.rows) :
              LET r == df_clean.rows[i]
              IN /\ year_range[1] <= r.year /\ r.year <= year_range[2]
                 /\ 4 * meta_range[1] <= r.metadata
                 /\ r.metadata <= 4 * meta_range[2]
                 /\ \/ genre_filter = {}
                    \/ \E k \in 1..Len(df_genre.rows) :
                          /\ df_genre.rows[k].title = r.title
                          /\ df_genre.rows[k].genre \in genre_filter
                 /\ \/ cast_filter = {}
                    \/ \E k \in 1..Len(df_cast.rows) :
                          /\ df_cast.rows[k].title = r.title
                          /\ df_cast.rows[k].cast \in cast_filter})

\* C1's case: a genre selection keeps one movie row and drops another
C1_Witness ==
    /\ AfterFilter
    /\ genre_filter # {}
    /\ Len(df_filtered) >= 1
    /\ Len(df_filtered) < Len(df_clean.rows)

\* C2: the default year and metadata ranges contain every row's value, so
\* with the default ranges and nothing selected the filtered table is the
\* whole movie table.
C2_DefaultRangesKeepAll ==
    (/\ AfterFilter
     /\ {"year", "metadata"} \subseteq df_clean.cols
     /\ year_range = YearBounds(df_clean)
     /\ meta_range = MetaBounds(df_clean)
     /\ genre_filter = {}
     /\ cast_filter = {})
    => /\ \A i \in 1..Len(df_clean.rows) :
            /\ year_range[1] <= df_clean.rows[i].year
            /\ df_clean.rows[i].year <= year_range[2]
            /\ 4 * meta_range[1] <= df_clean.rows[i].metadata
            /\ df_clean.rows[i].metadata <= 4 * meta_range[2]
       /\ df_filtered = df_clean.rows

\* C3: after coerce_numeric and impute_and_cast, none of the columns
\* metadata, duration, year that the table has holds a missing value,
\* whatever the column held.
C3_NoMissingAfterImpute ==
    ipc \in {"done", "error"}
    => /\ ipc = "done"
       /\ \A c \in DOMAIN table : \A i \in 1..Len(table[c]) : table[c][i].k = "num"

\* the years the exploded table left has of its own for a title
OwnYears(left, t) ==
    IF HasCol(left, "year")
    THEN {YearOf(left.rows[k].year) :
            k \in {n \in 1..Len(left.rows) : left.rows[n].title = t}}
    ELSE {}

\* the joined table j of the exploded table left is resolved as C4 says
JoinResolved(j, left) ==
    /\ "year" \in j.cols
    /\ "year_x" \notin j.cols
    /\ "year_y" \notin j.cols
    /\ \A i \in 1..Len(j.rows) :
          IF j.rows[i].title \in MovieTitles
          THEN \E m \in 1..Len(df_clean.rows) :
                  /\ df_clean.rows[m].title = j.rows[i].title
                  /\ j.rows[i].year = YearOf(df_clean.rows[m].year)
          ELSE j.rows[i].year \in {NoYear} \cup OwnYears(left, j.rows[i].title)

\* C4: after collision resolution a joined table has one year column and
\* neither year_x nor year_y; a joined row whose title matches a movie row
\* carries that movie row's year, whatever year the exploded table had, and
\* a joined row without a match carries the exploded table's own year or none.
C4_YearFromMovie ==
    /\ df_year_genre.cols # {} => JoinResolved(df_year_genre, df_genre)
    /\ df_year_cast.cols # {} => JoinResolved(df_year_cast, df_cast)

\* C4's case: the genre table has a year of its own that differs from the
\* year of the movie its row matches
C4_Witness ==
    /\ pc = "done"
    /\ HasCol(df_genre, "year")
    /\ df_year_genre.cols # {}
    /\ \E e \in Range(df_genre.rows) : \E m \in Range(df_clean.rows) :
          e.title = m.title /\ e.year # m.year

\* C5: every row counted in the genre-by-year pivot or in the
\* actor-appearances-by-year counts has a title that the movie table has.
C5_UnmatchedNeverCounted ==
    \A r \in Range(pivot_rows) \cup Range(count_rows) : r.title \in MovieTitles

\* C6: with a non-empty genre (cast) selection, when the movie table lacks
\* title or the genre (cast) table lacks title or genre (cast), the genre
\* (cast) step raises nothing and leaves the filtered table as it was.
C6_MissingColumnIsNoOp ==
    /\ (/\ genre_filter # {}
        /\ \/ ~HasCol(df_clean, "title")
           \/ ~HasCol(df_genre, "title")
           \/ ~HasCol(df_genre, "genre"))
       => /\ pc # "raised_genre"
          /\ pc = "cast" => df_filtered = prev_filtered
    /\ (/\ cast_filter # {}
        /\ \/ ~HasCol(df_clean, "title")
           \/ ~HasCol(df_cast, "title")
           \/ ~HasCol(df_cast, "cast"))
       => /\ pc # "raised_cast"
          /\ pc = "export" => df_filtered = prev_filtered

CurrentConfig ==
    [genres |-> genre_filter, cast |-> cast_filter, yr |-> year_range, mr |-> meta_range]

RangeWider(a, b) == b[1] <= a[1] /\ a[2] <= b[2]

\* b differs from a in exactly one filter, and is wider there
OneFilterWider(a, b) ==
    \/ /\ a.yr # b.yr /\ RangeWider(a.yr, b.yr)
       /\ a.mr = b.mr /\ a.genres = b.genres /\ a.cast = b.cast
    \/ /\ a.mr # b.mr /\ RangeWider(a.mr, b.mr)
       /\ a.yr = b.yr /\ a.genres = b.genres /\ a.cast = b.cast
    \/ /\ a.genres # b.genres /\ a.genres \subseteq b.genres
       /\ a.yr = b.yr /\ a.mr = b.mr /\ a.cast = b.cast
    \/ /\ a.cast # b.cast /\ a.cast \subseteq b.cast
       /\ a.yr = b.yr /\ a.mr = b.mr /\ a.genres = b.genres

\* the same, a widened genre or cast set being non-empty before it is widened
OneFilterWiderNonEmpty(a, b) ==
    /\ OneFilterWider(a, b)
    /\ a.genres # b.genres => a.genres # {}
    /\ a.cast # b.cast => a.cast # {}

WiderKeepsRows(b) ==
    LET r == FilterPass(df_clean, df_genre, df_cast, b)
    IN ~r[2] /\ Len(r[1]) >= Len(df_filtered)

\* C7 as claimed: a configuration that is wider in one filter, the empty
\* genre or cast set counting as a narrower set, never filters to fewer rows.
C7_MonotoneWithEmptySets ==
    AfterFilter
    => \A b \in Configs(df_clean, df_genre, df_cast) :
          OneFilterWider(CurrentConfig, b) => WiderKeepsRows(b)

\* C7 as amended: a configuration that is wider in one filter, a widened
\* genre or cast set being non-empty before, never filters to fewer rows.
C7_MonotoneNonEmptySets ==
    AfterFilter
    => \A b \in Configs(df_clean, df_genre, df_cast) :
          OneFilterWiderNonEmpty(CurrentConfig, b) => WiderKeepsRows(b)

\* C7's case: widening a non-empty genre set lets more rows through
C7_Witness ==
    /\ AfterFilter
    /\ \E b \in Configs(df_clean, df_genre, df_cast) :
          /\ OneFilterWiderNonEmpty(CurrentConfig, b)
          /\ CurrentConfig.genres # b.genres
          /\ Len(FilterPass(df_clean, df_genre, df_cast, b)[1]) > Len(df_filtered)

\* C8: a column whose header spells the score column (any case of metadata,
\* meta data, meta_data, whitespace around it, one or more spaces, tabs or
\* newlines as the separator) ends up named metadata, and a column named
\* metadata keeps its name.
C8_ScoreColumnNamedMetadata ==
    npc = "done"
    => \A i \in 1..Len(columns) :
          /\ (/\ rawColumns[i] \in ScoreSpellings
              /\ \A j \in 1..Len(columns) : j # i => rawColumns[j] \notin ScoreSpellings)
             => columns[i] = metadata
          /\ rawColumns[i] = metadata => columns[i] = metadata

\* C9: normalising a normalised header again changes no column name.
C9_NormalizeIdempotent == npc = "done" => Normalize(columns) = columns

\* C9's case: two different headers that the normalisation made equal
C9_Witness ==
    /\ npc = "done"
    /\ Len(columns) = 2
    /\ rawColumns[1] # rawColumns[2]
    /\ columns[1] = columns[2]
    /\ columns[1] # rawColumns[1]

\* C10: the correlation tab reports insufficient data exactly when fewer
\* than two of metadata, duration, year are columns of the filtered table
\* or the filtered table has no row.
C10_InsufficientDataGuard ==
    pc = "done"
    => (corr = "insufficient"
        <=> \/ Cardinality({"metadata", "duration", "year"} \cap df_clean.cols) < 2
            \/ df_filtered = <<>>)

AfterSidebarExport ==
    pc \in {"overview_tab", "genre_tab", "cast_tab", "yearly_tab",
            "scatter_tab", "corr_tab", "table_tab", "done"}

\* the text holds exactly the given rows and columns, in their order
CsvHolds(csv, cols, rows) ==
    /\ Len(csv) = Len(rows) + 1
    /\ csv[1] = JoinComma(cols)
    /\ \A i \in 1..Len(rows) : csv[i + 1] = CsvLine(cols, rows[i])

\* C11: from the end of the filter step to the end of the pass, the
\* filtered movie table and the three imputed base tables stay what the
\* filter step left (rows, columns, order, values), whatever the sidebar
\* export and the tabs compute; the sidebar export holds exactly the rows
\* and columns of the filtered table in their order, and the data-table
\* export, once produced, is identical to the sidebar export.
C11_ExportsIdenticalAndTablesUntouched ==
    AfterFilter
    => /\ df_filtered = filter_end.filtered
       /\ df_clean = filter_end.clean
       /\ df_genre = filter_end.genre
       /\ df_cast = filter_end.cast
       /\ AfterSidebarExport
          => CsvHolds(csv_bytes, Columns(filter_end.clean), filter_end.filtered)
       /\ pc = "done"
          => /\ table_csv = csv_bytes
             /\ CsvHolds(table_csv, Columns(df_clean), df_filtered)

\* C11's case: both exports were produced after a filter that removed some
\* rows and kept some, the overview counted genres, and the genre tabs
\* joined an exploded table that has a year column of its own (the join
\* whose year column is assigned in place)
C11_Witness ==
    /\ pc = "done"
    /\ Len(df_filtered) >= 1
    /\ Len(df_filtered) < Len(df_clean.rows)
    /\ Len(table_csv) = Len(df_filtered) + 1
    /\ g_counts # <<>>
    /\ "year" \in df_genre.cols
    /\ df_year_genre.rows # <<>>
====
